---- MODULE Spec2Model ----
(***************************************************************************)
(* Model of transmittal.py: update_excel (the matcher/updater), the part   *)
(* of plot_status_charts that computes the pie-chart wedges, and the       *)
(* "Update Data" button handler of main.                                   *)
(*                                                                         *)
(* Text is modelled as a sequence of one-character strings, so that        *)
(* str.strip, str.lower, re.split and strftime are computed character by   *)
(* character.  A dataframe is a record                                     *)
(*     [columns : sequence of column names,                                *)
(*      nrows   : number of rows,                                          *)
(*      cell    : [column name -> [1..nrows -> cell value]]]               *)
(* and a cell value is either a text or the missing value NaN.             *)
(***************************************************************************)
EXTENDS Integers, Sequences, FiniteSets

\* ---------------------------------------------------------------- bounds
MaxRows == 2
MaxCodes == 2
MaxBlobLen == 3

\* ------------------------------------------------------------ text model
\* The missing value of pandas.  It is a one-element sequence whose element
\* is not a single character, so it differs from every text.
NaN == <<"NaN">>

UpperCase == <<"A","B","C","D","E","F","G","H","I","J","K","L","M",
               "N","O","P","Q","R","S","T","U","V","W","X","Y","Z">>
LowerCase == <<"a","b","c","d","e","f","g","h","i","j","k","l","m",
               "n","o","p","q","r","s","t","u","v","w","x","y","z">>
Digits == <<"0","1","2","3","4","5","6","7","8","9">>
Whitespace == {" ", "\n", "\t", "\r"}

\* str.lower on one character
ToLower == [c \in {UpperCase[k] : k \in 1..26} |->
              LowerCase[CHOOSE k \in 1..26 : UpperCase[k] = c]]
LowerChar(c) == IF c \in DOMAIN ToLower THEN ToLower[c] ELSE c

\* str.lower
Lower(s) == [k \in 1..Len(s) |-> LowerChar(s[k])]

RECURSIVE LStrip(_)
LStrip(s) ==
  IF s = <<>> THEN <<>>
  ELSE IF Head(s) \in Whitespace THEN LStrip(Tail(s)) ELSE s

RECURSIVE RStrip(_)
RStrip(s) ==
  IF s = <<>> THEN <<>>
  ELSE IF s[Len(s)] \in Whitespace THEN RStrip(SubSeq(s, 1, Len(s) - 1)) ELSE s

\* str.strip
Strip(s) == RStrip(LStrip(s))

\* Series.astype(str) on one cell: the missing value becomes the text "nan"
AsStr(v) == IF v = NaN THEN <<"n","a","n">> ELSE v

\* --------------------------------------------------------- date.strftime
MonthAbbr == << <<"J","a","n">>, <<"F","e","b">>, <<"M","a","r">>,
                <<"A","p","r">>, <<"M","a","y">>, <<"J","u","n">>,
                <<"J","u","l">>, <<"A","u","g">>, <<"S","e","p">>,
                <<"O","c","t">>, <<"N","o","v">>, <<"D","e","c">> >>

TwoDigits(n) == << Digits[(n \div 10) + 1], Digits[(n % 10) + 1] >>

\* date.strftime("%d-%b-%y")
FormatDate(d) ==
  TwoDigits(d.day) \o <<"-">> \o MonthAbbr[d.month] \o <<"-">>
    \o TwoDigits(d.year % 100)

\* --------------------------------------------------------- update_excel
\* the two sides of the comparison of line 17
CellKey_NoStrip(v) == Lower(AsStr(v))
CellKey(v) == Lower(Strip(AsStr(v)))

CodeKey_NoLower(code) == Strip(code)
CodeKey(code) == Lower(Strip(code))

\* mask of line 17, as the set of row positions where it is True
Mask(d, code_col, code) ==
  { r \in 1..d.nrows : CellKey(d.cell[code_col][r]) = CodeKey(code) }

\* df.loc[mask, col] = v.  A column that does not exist is created by
\* pandas (setting with enlargement), holding NaN outside the mask.  The
\* cell takes the text whatever the column held before (a column of missing
\* values is converted to hold objects).
SetLoc_AllRows(d, mask, col, v) ==
  [d EXCEPT !.cell[col] = [r \in 1..d.nrows |-> v]]
SetLoc_Append(d, mask, col, v) ==
  [d EXCEPT !.cell[col] =
     [r \in 1..d.nrows |->
        IF r \in mask
        THEN (IF d.cell[col][r] = NaN THEN v ELSE d.cell[col][r] \o v)
        ELSE d.cell[col][r]]]
SetLoc(d, mask, col, v) ==
  IF \E k \in 1..Len(d.columns) : d.columns[k] = col
  THEN [d EXCEPT !.cell[col] =
          [r \in 1..d.nrows |-> IF r \in mask THEN v ELSE d.cell[col][r]]]
  ELSE [columns |-> Append(d.columns, col),
        nrows   |-> d.nrows,
        cell    |-> [c \in (DOMAIN d.cell) \cup {col} |->
                       IF c = col
                       THEN [r \in 1..d.nrows |-> IF r \in mask THEN v ELSE NaN]
                       ELSE d.cell[c]]]

\* updated_rows += len(matching_rows)
AddCount_One(n, mask) == n + 1
AddCount(n, mask) == n + Cardinality(mask)

\* lines 20-25 for one mask: the date is written first, the transmittal second
WriteRows_DateLast(d, mask, a) ==
  SetLoc(SetLoc(d, mask, a.transmittal_col, a.transmittal),
         mask, a.date_col, FormatDate(a.date))
WriteRows(d, mask, a) ==
  SetLoc(SetLoc(d, mask, a.date_col, FormatDate(a.date)),
         mask, a.transmittal_col, a.transmittal)

HasColumn(d, col) == \E k \in 1..Len(d.columns) : d.columns[k] = col

\* one pass of the loop body for `code`; s = [df, updated_rows, raised].
\* df[code_col] raises KeyError when the column does not exist.
LoopBody_StopAfterFirst(s, code, a) ==
  IF s.raised \/ s.updated_rows > 0 THEN s
  ELSE IF ~HasColumn(s.df, a.code_col) THEN [s EXCEPT !.raised = TRUE]
  ELSE LET mask == Mask(s.df, a.code_col, code)
       IN IF mask # {}
          THEN [df |-> WriteRows(s.df, mask, a),
                updated_rows |-> AddCount(s.updated_rows, mask),
                raised |-> FALSE]
          ELSE s
LoopBody(s, code, a) ==
  IF s.raised THEN s
  ELSE IF ~HasColumn(s.df, a.code_col) THEN [s EXCEPT !.raised = TRUE]
  ELSE LET mask == Mask(s.df, a.code_col, code)
       IN IF mask # {}
          THEN [df |-> WriteRows(s.df, mask, a),
                updated_rows |-> AddCount(s.updated_rows, mask),
                raised |-> FALSE]
          ELSE s

RECURSIVE RunLoop(_, _, _)
RunLoop(s, cs, a) ==
  IF cs = <<>> THEN s ELSE RunLoop(LoopBody(s, Head(cs), a), Tail(cs), a)

\* update_excel as a function of its arguments
UpdateExcel(d, cs, a) ==
  RunLoop([df |-> d, updated_rows |-> 0, raised |-> FALSE], cs, a)

\* ------------------------------------------------------------------ main
\* re.split(r'[\n,]', codes_input): the tokens between separators
RECURSIVE Split(_, _)
Split(s, cur) ==
  IF s = <<>> THEN <<cur>>
  ELSE IF Head(s) \in {"\n", ","} THEN <<cur>> \o Split(Tail(s), <<>>)
  ELSE Split(Tail(s), Append(cur, Head(s)))

\* [code.strip() for code in codes if code.strip()]
RECURSIVE StripNonEmpty(_)
StripNonEmpty(ts) ==
  IF ts = <<>> THEN <<>>
  ELSE IF Strip(Head(ts)) # <<>>
       THEN <<Strip(Head(ts))>> \o StripNonEmpty(Tail(ts))
       ELSE StripNonEmpty(Tail(ts))

ParseCodes(blob) == StripNonEmpty(Split(blob, <<>>))

\* ---------------------------------------------------------------- inputs
Columns == <<"Code", "Date", "Transmittal">>
ColumnSet == {Columns[k] : k \in 1..Len(Columns)}
MissingColumn == "Missing"

CodeCells == { <<"A">>, <<" ", "b">> }
CodePool == { <<" ", "A", " ">>, <<"b">>, <<"N", "a", "N">> }
TransmittalPool == { <<" ", "B">>, <<"T">> }
DatePool == { [year |-> 2025, month |-> 5, day |-> 11],
              [year |-> 2009, month |-> 12, day |-> 5] }
BlobChars == {"a", "A", ",", " ", "\n"}

SeqsUpTo(S, n) == UNION { [1..k -> S] : k \in 0..n }

MkDf(n, codeCells) ==
  [columns |-> Columns,
   nrows   |-> n,
   cell    |-> [c \in ColumnSet |->
                  IF c = "Code" THEN codeCells ELSE [r \in 1..n |-> NaN]]]

DataFrames ==
  UNION { { MkDf(n, cc) : cc \in [1..n -> CodeCells] } : n \in 0..MaxRows }

VARIABLES
  df_in,            \* the dataset the caller holds (main's df)
  df,               \* update_excel's df (main passes df.copy())
  codes, date, transmittal, date_col, transmittal_col, code_col,
  i,                \* position of the for loop of line 15 in codes
  updated_rows,
  pc,               \* "idle", "loop", "returned", "raised", "end"
  caller,           \* "direct" or "main"
  codes_input,      \* the text area of main
  messages,         \* what main has shown: st.warning / st.success / st.error
  non_updated_count \* plot_status_charts' second wedge

vars == <<df_in, df, codes, date, transmittal, date_col, transmittal_col,
          code_col, i, updated_rows, pc, caller, codes_input, messages,
          non_updated_count>>

Args == [date |-> date, transmittal |-> transmittal, date_col |-> date_col,
         transmittal_col |-> transmittal_col, code_col |-> code_col]

\* update_excel entered with its arguments, after line 13
InitCall(colArgs) ==
  /\ df_in \in DataFrames
  /\ df = df_in
  /\ codes \in SeqsUpTo(CodePool, MaxCodes)
  /\ date \in DatePool
  /\ transmittal \in TransmittalPool
  /\ date_col \in colArgs
  /\ transmittal_col \in colArgs
  /\ code_col \in colArgs
  /\ i = 1
  /\ updated_rows = 0
  /\ pc = "loop"
  /\ caller = "direct"
  /\ codes_input = <<>>
  /\ messages = {}
  /\ non_updated_count = 0

\* a call whose three column names exist
Init == InitCall(ColumnSet)

\* a call in which at least one column name does not exist
InitInvalid ==
  /\ InitCall(ColumnSet \cup {MissingColumn})
  /\ MissingColumn \in {date_col, transmittal_col, code_col}

\* main with a file loaded and the widgets filled, before the button press;
\* the select boxes offer only the columns of the file
InitMain ==
  /\ df_in \in DataFrames
  /\ df = df_in
  /\ codes = <<>>
  /\ date \in DatePool
  /\ transmittal \in TransmittalPool
  /\ date_col \in ColumnSet
  /\ transmittal_col \in ColumnSet
  /\ code_col \in ColumnSet
  /\ i = 1
  /\ updated_rows = 0
  /\ pc = "idle"
  /\ caller = "main"
  /\ codes_input \in SeqsUpTo(BlobChars, MaxBlobLen)
  /\ messages = {}
  /\ non_updated_count = 0

\* --------------------------------------------------------------- actions
Inputs == <<df_in, codes, date, transmittal, date_col, transmittal_col,
            code_col, caller, codes_input>>

\* lines 17-25: the code at position i matches some row
LoopMatch ==
  /\ pc = "loop"
  /\ i <= Len(codes)
  /\ HasColumn(df, code_col)
  /\ Mask(df, code_col, codes[i]) # {}
  /\ LET s == LoopBody([df |-> df, updated_rows |-> updated_rows,
                        raised |-> FALSE], codes[i], Args)
     IN /\ df' = s.df
        /\ updated_rows' = s.updated_rows
  /\ i' = i + 1
  /\ UNCHANGED <<Inputs, pc, messages, non_updated_count>>

\* lines 17-20: the code at position i matches no row
LoopNoMatch ==
  /\ pc = "loop"
  /\ i <= Len(codes)
  /\ HasColumn(df, code_col)
  /\ Mask(df, code_col, codes[i]) = {}
  /\ i' = i + 1
  /\ UNCHANGED <<Inputs, df, updated_rows, pc, messages, non_updated_count>>

\* line 17: df[code_col] raises KeyError
LoopKeyError ==
  /\ pc = "loop"
  /\ i <= Len(codes)
  /\ ~HasColumn(df, code_col)
  /\ pc' = "raised"
  /\ UNCHANGED <<Inputs, df, updated_rows, i, messages, non_updated_count>>

\* line 27
Return ==
  /\ pc = "loop"
  /\ i > Len(codes)
  /\ pc' = "returned"
  /\ UNCHANGED <<Inputs, df, updated_rows, i, messages, non_updated_count>>

\* lines 94-96
PressUpdateNoInput ==
  /\ pc = "idle"
  /\ codes_input = <<>>
  /\ messages' = messages \cup {"Please enter at least one code."}
  /\ pc' = "end"
  /\ UNCHANGED <<Inputs, df, updated_rows, i, non_updated_count>>

\* lines 97-106: parse the codes and call update_excel on a copy
PressUpdate ==
  /\ pc = "idle"
  /\ codes_input # <<>>
  /\ codes' = ParseCodes(codes_input)
  /\ df' = df_in
  /\ updated_rows' = 0
  /\ i' = 1
  /\ pc' = "loop"
  /\ UNCHANGED <<df_in, date, transmittal, date_col, transmittal_col,
                 code_col, caller, codes_input, messages, non_updated_count>>

\* lines 108-133 with plot_status_charts lines 35-42: plt.pie rejects a
\* negative wedge with ValueError, which line 137 turns into st.error
ReportSuccess ==
  /\ caller = "main"
  /\ pc = "returned"
  /\ updated_rows > 0
  /\ non_updated_count' = df.nrows - updated_rows
  /\ messages' = messages \cup {"Successfully updated rows!"} \cup
       (IF df.nrows - updated_rows < 0 THEN {"Error processing file"} ELSE {})
  /\ pc' = "end"
  /\ UNCHANGED <<Inputs, df, updated_rows, i>>

\* lines 134-135
ReportNoMatch ==
  /\ caller = "main"
  /\ pc = "returned"
  /\ ~(updated_rows > 0)
  /\ messages' = messages \cup
       {"No matching codes found in the specified column."}
  /\ pc' = "end"
  /\ UNCHANGED <<Inputs, df, updated_rows, i, non_updated_count>>

Next == LoopMatch \/ LoopNoMatch \/ Return
NextInvalid == LoopMatch \/ LoopNoMatch \/ LoopKeyError \/ Return
NextMain ==
  \/ PressUpdateNoInput \/ PressUpdate
  \/ LoopMatch \/ LoopNoMatch \/ Return
  \/ ReportSuccess \/ ReportNoMatch

Spec == Init /\ [][Next]_vars
SpecInvalid == InitInvalid /\ [][NextInvalid]_vars
SpecMain == InitMain /\ [][NextMain]_vars

\* ------------------------------------------------ vocabulary of the claims
\* the matching rule as the specification words it: string form, trimmed
\* and lower-cased, on both sides
Matches(v, code) == Lower(Strip(AsStr(v))) = Lower(Strip(code))

\* rows of dataset d whose lookup value matches at least one entry of cs
MatchedRows(d, col, cs) ==
  { r \in 1..d.nrows : \E k \in 1..Len(cs) : Matches(d.cell[col][r], cs[k]) }

\* sum over the entries of cs, in order, of the rows of d matching the entry
RECURSIVE SumMatches(_, _, _)
SumMatches(d, col, cs) ==
  IF cs = <<>> THEN 0
  ELSE Cardinality({ r \in 1..d.nrows : Matches(d.cell[col][r], Head(cs)) })
       + SumMatches(d, col, Tail(cs))

ToUpper == [c \in {LowerCase[k] : k \in 1..26} |->
              UpperCase[CHOOSE k \in 1..26 : LowerCase[k] = c]]
UpperChar(c) == IF c \in DOMAIN ToUpper THEN ToUpper[c] ELSE c

\* the same codes, written trimmed and in lower case
Normalized(cs) == [k \in 1..Len(cs) |-> Lower(Strip(cs[k]))]
\* the same codes, written in upper case between blanks
Padded(cs) ==
  [k \in 1..Len(cs) |->
     <<" ">> \o [j \in 1..Len(cs[k]) |-> UpperChar(cs[k][j])] \o <<"\t">>]

RemoveAt(cs, j) == SubSeq(cs, 1, j - 1) \o SubSeq(cs, j + 1, Len(cs))

\* cs with the entries at positions j and j+1 exchanged.  Every permutation
\* is a product of such exchanges, and every code list is an input, so a
\* result that no exchange changes is the same for all permutations.
SwapAt(cs, j) ==
  [k \in 1..Len(cs) |-> IF k = j THEN cs[j + 1] ELSE IF k = j + 1 THEN cs[j] ELSE cs[k]]

WriteColumns == {date_col, transmittal_col}
Returned == pc = "returned"

\* C1: a row matches a code exactly when the trimmed, lower-cased string
\* form of its lookup value equals the trimmed, lower-cased code; and code
\* lists that differ only in case or surrounding whitespace give the same
\* returned dataset and the same count.
C1_CaseWhitespaceInvariance ==
  /\ (pc = "loop" /\ i <= Len(codes)) =>
       Mask(df, code_col, codes[i]) =
         { r \in 1..df.nrows : Matches(df.cell[code_col][r], codes[i]) }
  /\ Returned =>
       LET plain == UpdateExcel(df_in, Normalized(codes), Args)
           shout == UpdateExcel(df_in, Padded(codes), Args)
       IN /\ plain.df = df
          /\ plain.updated_rows = updated_rows
          /\ shout.df = df
          /\ shout.updated_rows = updated_rows

C1_Witness ==
  /\ Returned
  /\ updated_rows > 0
  /\ \E k \in 1..Len(codes) :
       /\ codes[k] # Lower(Strip(codes[k]))
       /\ \E r \in 1..df_in.nrows : Matches(df_in.cell[code_col][r], codes[k])

\* C2 as claimed: on return every matched row holds the formatted date in
\* the date-write column and the transmittal in the transmittal-write
\* column, also when these are one column.
C2_AsClaimed ==
  Returned =>
    \A r \in MatchedRows(df_in, code_col, codes) :
      /\ df.cell[date_col][r] = FormatDate(date)
      /\ df.cell[transmittal_col][r] = transmittal

\* C2 amended: on return every matched row holds the transmittal, verbatim,
\* in the transmittal-write column, and the date as DD-Mon-YY in the
\* date-write column when that is a different column.
C2_WriteRule ==
  Returned =>
    \A r \in MatchedRows(df_in, code_col, codes) :
      /\ df.cell[transmittal_col][r] = transmittal
      /\ (date_col # transmittal_col) =>
           (/\ df.cell[date_col][r] = FormatDate(date)
            /\ Len(df.cell[date_col][r]) = 9
            /\ df.cell[date_col][r][3] = "-"
            /\ df.cell[date_col][r][7] = "-")
      /\ (date_col # transmittal_col /\ date.year = 2025 /\ date.month = 5
            /\ date.day = 11) =>
           df.cell[date_col][r] = <<"1","1","-","M","a","y","-","2","5">>
      /\ (date_col # transmittal_col /\ date.year = 2009 /\ date.month = 12
            /\ date.day = 5) =>
           df.cell[date_col][r] = <<"0","5","-","D","e","c","-","0","9">>

C2_Witness ==
  /\ Returned
  /\ date_col = transmittal_col
  /\ MatchedRows(df_in, code_col, codes) # {}

\* C3: columns, row count and row order are those of the input, and a cell
\* differs from the input only in a write column of a matched row.
C3_Frame ==
  /\ df.columns = df_in.columns
  /\ df.nrows = df_in.nrows
  /\ DOMAIN df.cell = DOMAIN df_in.cell
  /\ \A c \in DOMAIN df_in.cell : \A r \in 1..df_in.nrows :
       df.cell[c][r] # df_in.cell[c][r] =>
         /\ c \in WriteColumns
         /\ r \in MatchedRows(df_in, code_col, codes)

C3_Witness ==
  /\ Returned
  /\ df # df_in
  /\ MatchedRows(df_in, code_col, codes) # 1..df_in.nrows

\* C4 as claimed: the count is the sum over the entries of codes of the
\* rows of the input matching the entry, for every choice of columns.
C4_AsClaimed ==
  Returned => updated_rows = SumMatches(df_in, code_col, codes)

\* C4 amended: the same, when the lookup column is not a write column.
C4_CountingRule ==
  (Returned /\ code_col \notin WriteColumns) =>
    updated_rows = SumMatches(df_in, code_col, codes)

C4_Witness ==
  /\ Returned
  /\ code_col \notin WriteColumns
  /\ updated_rows > df_in.nrows
  /\ df_in.nrows > 1

\* C5 as claimed: with a column name that does not exist the call does not
\* return normally and the dataset stays identical to the input.
C5_AsClaimed ==
  (\E c \in {date_col, transmittal_col, code_col} : ~HasColumn(df_in, c)) =>
    /\ pc # "returned"
    /\ df = df_in

\* C6: with no code, or no code matching a row, the dataset comes back
\* unchanged with count 0; the count is positive exactly when a row matched.
C6_NoWork ==
  Returned =>
    /\ MatchedRows(df_in, code_col, codes) = {} =>
         (df = df_in /\ updated_rows = 0)
    /\ updated_rows > 0 <=> MatchedRows(df_in, code_col, codes) # {}

C6_Witness ==
  /\ Returned
  /\ codes # <<>>
  /\ df_in.nrows > 0
  /\ updated_rows = 0
  /\ df = df_in

\* C7 as claimed: a text that leaves no usable code is answered with the
\* empty-code-list message and never the no-matches message.
C7_AsClaimed ==
  /\ (pc = "end" /\ ParseCodes(codes_input) = <<>>) =>
       messages = {"Please enter at least one code."}
  /\ "No matching codes found in the specified column." \in messages =>
       ParseCodes(codes_input) # <<>>

\* C8: removing a later repetition of a code leaves the returned dataset
\* cell for cell the same.
C8_DuplicateIdempotent ==
  Returned =>
    \A j \in 2..Len(codes) :
      (\E k \in 1..(j - 1) : Lower(Strip(codes[k])) = Lower(Strip(codes[j]))) =>
        UpdateExcel(df_in, RemoveAt(codes, j), Args).df = df

C8_Witness ==
  /\ Returned
  /\ updated_rows > 0
  /\ \E j \in 2..Len(codes) : \E k \in 1..(j - 1) :
       /\ codes[k] = codes[j]
       /\ \E r \in 1..df_in.nrows : Matches(df_in.cell[code_col][r], codes[j])

\* C9 as claimed: the count never exceeds the number of rows, so the
\* non-updated wedge of the pie chart is never negative.
C9_AsClaimed ==
  /\ updated_rows <= df.nrows
  /\ non_updated_count >= 0

\* C10 as claimed: code lists that are permutations of each other give the
\* same dataset and the same count, for every choice of columns.
C10_AsClaimed ==
  Returned =>
    \A j \in 1..(Len(codes) - 1) :
      LET res == UpdateExcel(df_in, SwapAt(codes, j), Args)
      IN res.df = df /\ res.updated_rows = updated_rows

\* C10 amended: permuted code lists give the same dataset for every choice
\* of columns, and the same count when the lookup column is not a write
\* column.
C10_OrderIndependence ==
  Returned =>
    \A j \in 1..(Len(codes) - 1) :
      LET res == UpdateExcel(df_in, SwapAt(codes, j), Args)
      IN /\ res.df = df
         /\ code_col \notin WriteColumns => res.updated_rows = updated_rows

C10_Witness ==
  /\ Returned
  /\ Len(codes) >= 2
  /\ code_col \in WriteColumns
  /\ Lower(Strip(codes[1])) # Lower(Strip(codes[2]))
  /\ \E r \in 1..df_in.nrows : Matches(df_in.cell[code_col][r], codes[1])
  /\ \E r \in 1..df_in.nrows : Matches(df_in.cell[code_col][r], codes[2])

====
